---- MODULE Spec2Model ----
(***************************************************************************)
(* A model of records/records.py: the Records fetcher, which drains the    *)
(* paged GBIF occurrence search into a table, and the Epochs aggregator,   *)
(* which runs one Records per epoch, labels, concatenates and sorts the    *)
(* tables, and computes Simpson's diversity per group.                     *)
(*                                                                         *)
(* The search API is the environment: every request is answered with a     *)
(* non-success status, or with a page of records and an endOfRecords flag. *)
(* `http' is the history of the requests issued and of their answers.      *)
(*                                                                         *)
(* A run is one call Epochs(q, start, end, epochsize, **kwargs), which     *)
(* runs Records(q, (i, i + epochsize), **kwargs) for every epoch i, and    *)
(* then one call of simpsons_diversity on the object.  The overrides in    *)
(* kwargs are decimal strings; an answer is well-formed JSON with both     *)
(* "results" and "endOfRecords"; every record has a year.                  *)
(***************************************************************************)
EXTENDS Integers, Sequences, FiniteSets

(***************************************************************************)
(* Bounds of the model.                                                    *)
(***************************************************************************)
\* the search API ends a result set at the latest on this page
MaxPages == 2
\* the search API holds at most this many matching records in all
MaxRows == 2
\* a table handed to simpsons_diversity has at most this many rows
MaxDivRows == 5

\* start and end years tried
Starts == {0, 1}
Ends == {0, 1, 2, 3}

\* epoch widths tried, the invalid ones (zero, negative) included
Widths == {-1, 0, 1, 2}
\* the year field of the records the API returns
Years == {1, 2}
\* the species field of a record; NA is a missing species.  The records the
\* API returns during a run are of ApiSpecies; the tables simpsons_diversity
\* is applied to hold all of Species
NA == "NaN"
\* the missing value of column c: NA in the species column, and in a numeric
\* column (year, epoch) a number that is no year
Missing(c) == IF c = "species" THEN NA ELSE -9999
Species == {"a", "b", NA}
ApiSpecies == {"a"}
\* grouping keys tried; stateProvince is a column no record of the model has
Keys == {"epoch", "year", "stateProvince"}

VARIABLES pc, start, end, epochsize, kwargs, epochs, rdicts, params, data,
          df, err, http, div

vars == <<pc, start, end, epochsize, kwargs, epochs, rdicts, params, data,
          df, err, http, div>>

(***************************************************************************)
(* Strings are sequences of characters.  str(n) and int(s) are Python's    *)
(* conversions between integers and their decimal strings.                 *)
(***************************************************************************)
Digits == <<"0", "1", "2", "3", "4", "5", "6", "7", "8", "9">>

RECURSIVE str(_)
str(n) == IF n < 0 THEN <<"-">> \o str(-n)
          ELSE IF n < 10 THEN <<Digits[n + 1]>>
          ELSE str(n \div 10) \o <<Digits[(n % 10) + 1]>>

DigitValue(c) == CHOOSE d \in 0..9 : Digits[d + 1] = c

RECURSIVE int(_)
int(s) == IF s[1] = "-" THEN -int(Tail(s))
          ELSE IF Len(s) = 1 THEN DigitValue(s[1])
          ELSE 10 * int(SubSeq(s, 1, Len(s) - 1)) + DigitValue(s[Len(s)])

\* ",".join([str(i) for i in interval])
JoinInterval(interval) == str(interval[1]) \o <<",">> \o str(interval[2])

(***************************************************************************)
(* Records.__init__: the default parameters, and the caller's overrides.   *)
(* Only the parameters the pagination reads or writes are kept; q,         *)
(* basisOfRecord, hasCoordinate, hasGeospatialIssue and country are sent   *)
(* unchanged with every request.  kwargs is a set of <<key, value>> pairs. *)
(***************************************************************************)
DefaultParams(interval) ==
    [year |-> JoinInterval(interval), offset |-> str(0), limit |-> str(300)]

Update(d, kw) ==
    [p \in DOMAIN d |->
        IF \E kv \in kw : kv[1] = p
        THEN (CHOOSE kv \in kw : kv[1] = p)[2]
        ELSE d[p]]

\* the overrides tried: none, a starting offset, a page size
KwargsSet == { {}, {<<"offset", str(100)>>}, {<<"limit", str(100)>>} }

\* self.params["offset"] = str(int(self.params["offset"]) + 300)
Increment == 300
\* (a variant that advances by the page size requested)
AdvanceOffset_byLimit(p) == [p EXCEPT !.offset = str(int(p.offset) + int(p.limit))]
AdvanceOffset(p) == [p EXCEPT !.offset = str(int(p.offset) + Increment)]

\* res.raise_for_status(): requests raises HTTPError for a 4xx or 5xx status
\* (a variant that leaves the status unchecked)
RaisesForStatus_unchecked(status) == FALSE
RaisesForStatus(status) == status >= 400 /\ status < 600

\* data += idata["results"]
\* (a variant that keeps the last page only)
Accumulate_overwrite(d, results) == results
Accumulate(d, results) == d \o results

(***************************************************************************)
(* Tables (pandas DataFrames): the set of columns and the rows in order.   *)
(* The row index is the position in `rows'.  Every record the API returns  *)
(* carries, besides its fields, the year interval of the request it        *)
(* answers (`queried'), which is no column: it records where a row came    *)
(* from.                                                                   *)
(***************************************************************************)
Fields(r) == DOMAIN r \ {"queried"}

\* pd.DataFrame(data): the columns are the union of the records' keys
DataFrame(d) == [cols |-> UNION {Fields(d[i]) : i \in DOMAIN d}, rows |-> d]

\* (a variant that labels every table with the last epoch of the range)
SetEpoch_last(t, epoch) ==
    [cols |-> t.cols \cup {"epoch"},
     rows |-> [i \in DOMAIN t.rows |->
                 [c \in DOMAIN t.rows[i] \cup {"epoch"} |->
                     IF c = "epoch" THEN epochs[Len(epochs)] ELSE t.rows[i][c]]]]

\* df["epoch"] = epoch
SetEpoch(t, epoch) ==
    [cols |-> t.cols \cup {"epoch"},
     rows |-> [i \in DOMAIN t.rows |->
                 [c \in DOMAIN t.rows[i] \cup {"epoch"} |->
                     IF c = "epoch" THEN epoch ELSE t.rows[i][c]]]]

RECURSIVE ConcatRows(_)
ConcatRows(ts) == IF ts = <<>> THEN <<>>
                  ELSE Head(ts).rows \o ConcatRows(Tail(ts))

\* pd.concat(tables): the union of the columns, a value missing in a row is NaN
Concat(ts) ==
    LET cols == UNION {ts[i].cols : i \in DOMAIN ts}
        rows == ConcatRows(ts)
    IN [cols |-> cols,
        rows |-> [i \in DOMAIN rows |->
                    [c \in cols \cup {"queried"} |->
                        IF c \in DOMAIN rows[i] THEN rows[i][c] ELSE Missing(c)]]]

\* one row put into a sequence sorted by year, after the rows of the same year
RECURSIVE Insert(_, _)
Insert(r, s) == IF s = <<>> THEN <<r>>
                ELSE IF r.year < Head(s).year THEN <<r>> \o s
                ELSE <<Head(s)>> \o Insert(r, Tail(s))

RECURSIVE SortRows(_)
SortRows(s) == IF s = <<>> THEN <<>>
               ELSE Insert(s[Len(s)], SortRows(SubSeq(s, 1, Len(s) - 1)))

\* .sort_values(by="year").reset_index(drop=True), for a table with a year
\* column; the order of rows of the same year is not relied upon
SortByYear(t) == [cols |-> t.cols, rows |-> SortRows(t.rows)]

\* (a variant that includes the end of the range)
RECURSIVE PyRange_inclusive(_, _, _)
PyRange_inclusive(a, b, step) ==
    IF (step > 0 /\ a <= b) \/ (step < 0 /\ a >= b)
    THEN <<a>> \o PyRange_inclusive(a + step, b, step)
    ELSE <<>>

\* (a variant that tests the end only after the first value)
RECURSIVE PyRange_doWhile(_, _, _)
PyRange_doWhile(a, b, step) ==
    <<a>> \o (IF (step > 0 /\ a + step < b) \/ (step < 0 /\ a + step > b)
              THEN PyRange_doWhile(a + step, b, step)
              ELSE <<>>)

\* range(start, end, step), for step # 0
RECURSIVE PyRange(_, _, _)
PyRange(a, b, step) ==
    IF (step > 0 /\ a < b) \/ (step < 0 /\ a > b)
    THEN <<a>> \o PyRange(a + step, b, step)
    ELSE <<>>

(***************************************************************************)
(* The search API.                                                         *)
(***************************************************************************)
Statuses == {200, 500}

\* an answer with an error status carries no page
ErrorStatus(status) == status \notin 200..299

\* the records the API may return to a request for the year interval y
ApiRecords(y, sp) == [year : Years, species : sp, queried : {y}]

SeqsUpTo(S, n) == UNION {[1..m -> S] : m \in 0..n}

\* the requests of the fetch for the year interval y, in the order issued
RECURSIVE RequestsFor(_, _)
RequestsFor(h, y) ==
    IF h = <<>> THEN <<>>
    ELSE (IF Head(h).year = y THEN <<Head(h)>> ELSE <<>>) \o RequestsFor(Tail(h), y)

RECURSIVE Served(_)
Served(h) == IF h = <<>> THEN 0 ELSE Len(Head(h).results) + Served(Tail(h))

(***************************************************************************)
(* The state.  pc is the position in Epochs.__init__: "call" before it     *)
(* runs, "comprehension" between two Records of the dict comprehension,    *)
(* "loop" inside Records._get_all_records, "done" once the object exists,  *)
(* "raised" when an exception has left the constructor.  df is <<>> while  *)
(* the caller has no table, and <<t>> once self.df = t; div is the result  *)
(* of the last simpsons_diversity call.                                     *)
(***************************************************************************)
NoParams == [year |-> <<>>, offset |-> <<>>, limit |-> <<>>]

Init ==
    /\ pc = "call"
    /\ start \in Starts
    /\ end \in Ends
    /\ epochsize \in Widths
    /\ kwargs \in KwargsSet
    /\ epochs = <<>>
    /\ rdicts = <<>>
    /\ params = NoParams
    /\ data = <<>>
    /\ df = <<>>
    /\ err = ""
    /\ http = <<>>
    /\ div = <<>>

\* an exception leaves the constructor: its locals are gone, no object exists
Raise(e) ==
    /\ pc' = "raised"
    /\ err' = e
    /\ rdicts' = <<>>
    /\ params' = NoParams
    /\ data' = <<>>
    /\ df' = <<>>

\* epochs = range(start, end, epochsize)
Epochs_range ==
    /\ pc = "call"
    /\ IF epochsize = 0
       THEN Raise("ValueError") /\ UNCHANGED epochs
       ELSE /\ epochs' = PyRange(start, end, epochsize)
            /\ pc' = "comprehension"
            /\ UNCHANGED <<rdicts, params, data, df, err>>
    /\ UNCHANGED <<start, end, epochsize, kwargs, http, div>>

\* Records(q, (i, i + epochsize), **kwargs), up to the call of
\* _get_all_records, for the next i of the comprehension
Records_init ==
    /\ pc = "comprehension"
    /\ Len(rdicts) < Len(epochs)
    /\ LET i == epochs[Len(rdicts) + 1]
       IN params' = Update(DefaultParams(<<i, i + epochsize>>), kwargs)
    /\ data' = <<>>
    /\ pc' = "loop"
    /\ UNCHANGED <<start, end, epochsize, kwargs, epochs, rdicts, df, err, http, div>>

\* one pass of the loop of _get_all_records, with the API's answer
get_all_records ==
    /\ pc = "loop"
    /\ \E status \in Statuses, endOfRecords \in BOOLEAN :
       \E results \in SeqsUpTo(ApiRecords(params.year, ApiSpecies),
                               MaxRows - Served(http)) :
          /\ ErrorStatus(status) => results = <<>> /\ ~endOfRecords
          /\ ~ErrorStatus(status) /\ Len(RequestsFor(http, params.year)) + 1 >= MaxPages
                => endOfRecords
          /\ http' = Append(http, [year |-> params.year, offset |-> params.offset,
                                   limit |-> params.limit, status |-> status,
                                   results |-> results, endOfRecords |-> endOfRecords])
          /\ IF RaisesForStatus(status)
             THEN Raise("HTTPError")
             ELSE /\ params' = AdvanceOffset(params)
                  /\ data' = Accumulate(data, results)
                  /\ IF endOfRecords
                     THEN /\ rdicts' = Append(rdicts,
                                  [epoch |-> epochs[Len(rdicts) + 1],
                                   df |-> DataFrame(data')])
                          /\ pc' = "comprehension"
                     ELSE /\ pc' = "loop"
                          /\ UNCHANGED rdicts
                  /\ UNCHANGED <<df, err>>
    /\ UNCHANGED <<start, end, epochsize, kwargs, epochs, div>>

\* the rest of Epochs.__init__: label each table, concatenate, sort
Epochs_build ==
    /\ pc = "comprehension"
    /\ Len(rdicts) = Len(epochs)
    /\ LET labelled == [i \in DOMAIN rdicts |-> SetEpoch(rdicts[i].df, rdicts[i].epoch)]
           all == Concat(labelled)
       IN IF rdicts # <<>>
          THEN IF "year" \in all.cols
               THEN /\ df' = <<SortByYear(all)>>
                    /\ pc' = "done"
                    /\ rdicts' = <<>>
                    /\ UNCHANGED <<params, data, err>>
               ELSE Raise("KeyError")
          ELSE /\ df' = <<DataFrame(<<>>)>>
               /\ pc' = "done"
               /\ UNCHANGED <<rdicts, params, data, err>>
    /\ UNCHANGED <<start, end, epochsize, kwargs, epochs, http, div>>

(***************************************************************************)
(* Simpson's diversity.  The code computes in floating point; the model    *)
(* computes the same expressions over the rationals, a value being         *)
(* <<numerator, denominator>> in lowest terms, and NaN being <<0, 0>>.     *)
(***************************************************************************)
NaN == <<0, 0>>

RECURSIVE GCD(_, _)
GCD(a, b) == IF b = 0 THEN a ELSE GCD(b, a % b)

Abs(n) == IF n < 0 THEN -n ELSE n

Rat(n, d) == LET g == GCD(Abs(n), d) IN <<n \div g, d \div g>>
RatAdd(x, y) == Rat(x[1] * y[2] + y[1] * x[2], x[2] * y[2])
RatSub(x, y) == Rat(x[1] * y[2] - y[1] * x[2], x[2] * y[2])
RatSquare(x) == Rat(x[1] * x[1], x[2] * x[2])

\* arr.unique(): the values of arr, in the order of their first appearance
RECURSIVE Unique(_)
Unique(arr) ==
    IF arr = <<>> THEN <<>>
    ELSE LET u == Unique(SubSeq(arr, 1, Len(arr) - 1))
             x == arr[Len(arr)]
         IN IF \E i \in DOMAIN u : u[i] = x THEN u ELSE Append(u, x)

\* np.sum(arr == taxon)
CountOf(arr, taxon) == Cardinality({i \in DOMAIN arr : arr[i] = taxon})

\* the loop of calculate_simpsons_diversity over the taxa left, from simps
RECURSIVE SimpsLoop(_, _, _)
SimpsLoop(taxa, arr, simps) ==
    IF taxa = <<>> THEN simps
    ELSE SimpsLoop(Tail(taxa), arr,
                   RatAdd(simps, RatSquare(Rat(CountOf(arr, Head(taxa)), Len(arr)))))

\* (a variant that returns the sum of squares, not its complement)
calculate_simpsons_diversity_sum(arr) ==
    SimpsLoop(Unique(arr), arr, Rat(0, 1))

calculate_simpsons_diversity(arr) ==
    RatSub(Rat(1, 1), SimpsLoop(Unique(arr), arr, Rat(0, 1)))

\* self.df[self.df[by].notna() & self.df.species.notna()]
RECURSIVE NotNaRows(_, _)
NotNaRows(s, by) ==
    IF s = <<>> THEN <<>>
    ELSE (IF Head(s)[by] # Missing(by) /\ Head(s).species # NA THEN <<Head(s)>> ELSE <<>>)
         \o NotNaRows(Tail(s), by)

\* the species column of the rows of s that groupby(by) puts in group g
RECURSIVE GroupSpecies(_, _, _)
GroupSpecies(s, by, g) ==
    IF s = <<>> THEN <<>>
    ELSE (IF Head(s)[by] = g THEN <<Head(s).species>> ELSE <<>>)
         \o GroupSpecies(Tail(s), by, g)

\* data[data == 0] = np.nan
ZeroToNaN(v) == IF v = Rat(0, 1) THEN NaN ELSE v

\* the Series simpsons_diversity(by) returns for table t: group key -> value
DiversityOf(t, by) ==
    LET kept == NotNaRows(t.rows, by)
        groups == {kept[i][by] : i \in DOMAIN kept}
    IN [g \in groups |->
          ZeroToNaN(calculate_simpsons_diversity(GroupSpecies(kept, by, g)))]

\* Epochs.simpsons_diversity(by) on the object constructed.  The call leaves
\* the object as it is, so one call per run is followed: a later call
\* computes what a first call with its key computes.
simpsons_diversity(by) ==
    /\ pc = "done"
    /\ div = <<>>
    /\ LET t == df[1]
       IN IF by \notin t.cols
          THEN div' = <<[by |-> by, raised |-> "KeyError", data |-> <<>>]>>
          ELSE IF "species" \notin t.cols
          THEN div' = <<[by |-> by, raised |-> "AttributeError", data |-> <<>>]>>
          ELSE div' = <<[by |-> by, raised |-> "", data |-> DiversityOf(t, by)]>>
    /\ UNCHANGED <<pc, start, end, epochsize, kwargs, epochs, rdicts, params,
                   data, df, err, http>>

Next ==
    \/ Epochs_range
    \/ Records_init
    \/ get_all_records
    \/ Epochs_build
    \/ \E by \in Keys : simpsons_diversity(by)

Spec == Init /\ [][Next]_vars

(***************************************************************************)
(* simpsons_diversity applied to the tables of up to MaxDivRows rows of    *)
(* any species: the object after Epochs(q, 0, 2, 1), each of whose two     *)
(* fetches was answered with one page.                                     *)
(***************************************************************************)
InitDiv ==
    /\ pc = "done"
    /\ start = 0
    /\ end = 2
    /\ epochsize = 1
    /\ kwargs = {}
    /\ epochs = PyRange(0, 2, 1)
    /\ rdicts = <<>>
    /\ params = NoParams
    /\ data = <<>>
    /\ err = ""
    /\ div = <<>>
    /\ \E d0 \in SeqsUpTo(ApiRecords(JoinInterval(<<0, 1>>), Species), MaxDivRows) :
       \E d1 \in SeqsUpTo(ApiRecords(JoinInterval(<<1, 2>>), Species), MaxDivRows - Len(d0)) :
          /\ Len(d0) + Len(d1) > 0
          /\ http = <<[year |-> JoinInterval(<<0, 1>>), offset |-> str(0), limit |-> str(300),
                       status |-> 200, results |-> d0, endOfRecords |-> TRUE],
                      [year |-> JoinInterval(<<1, 2>>), offset |-> str(0), limit |-> str(300),
                       status |-> 200, results |-> d1, endOfRecords |-> TRUE]>>
          /\ df = <<SortByYear(Concat(<<SetEpoch(DataFrame(d0), 0),
                                        SetEpoch(DataFrame(d1), 1)>>))>>

NextDiv == \E by \in Keys : simpsons_diversity(by)

SpecDiv == InitDiv /\ [][NextDiv]_vars

(***************************************************************************)
(* What the properties below read off a state.                             *)
(***************************************************************************)
\* the year intervals of the fetches that have issued a request
FetchYears == {http[i].year : i \in DOMAIN http}

\* the year interval Epochs hands to the Records of epoch e
YearOf(e) == JoinInterval(<<e, e + epochsize>>)

Success(r) == r.status \in 200..299

\* the number of records on the first k pages of l
RECURSIVE RecordsOn(_, _)
RecordsOn(l, k) == IF k = 0 THEN 0 ELSE Len(l[k].results) + RecordsOn(l, k - 1)

\* the starting offset of a fetch: 0, unless the caller overrides it
StartOffset ==
    IF \E kv \in kwargs : kv[1] = "offset"
    THEN int((CHOOSE kv \in kwargs : kv[1] = "offset")[2])
    ELSE 0

\* l is K successful pages, the K-th and only the K-th ending the records
EndsOnPage(l, K) ==
    /\ K \in 1..Len(l)
    /\ \A j \in 1..K : Success(l[j])
    /\ l[K].endOfRecords
    /\ \A j \in 1..(K - 1) : ~l[j].endOfRecords

(***************************************************************************)
(* C1.  Pagination termination: when the API answers a fetch with K        *)
(* successful pages and ends the records on the K-th and only on it, the   *)
(* fetch is over after exactly K requests, and its table has as many rows  *)
(* as there are records on the K pages.                                    *)
(***************************************************************************)
C1_PaginationTermination ==
    \A y \in FetchYears :
       LET l == RequestsFor(http, y)
       IN \A K \in 1..Len(l) :
             EndsOnPage(l, K) =>
                /\ Len(l) = K
                /\ ~(pc = "loop" /\ params.year = y)
                /\ pc = "comprehension" =>
                      \E i \in DOMAIN rdicts :
                         /\ YearOf(rdicts[i].epoch) = y
                         /\ Len(rdicts[i].df.rows) = RecordsOn(l, K)

\* a fetch answered with two pages that hold two records, over
C1_Witness ==
    /\ pc = "comprehension"
    /\ \E i \in DOMAIN rdicts :
          LET l == RequestsFor(http, YearOf(rdicts[i].epoch))
          IN /\ EndsOnPage(l, 2)
             /\ Len(l[1].results) = 1
             /\ Len(l[2].results) = 1
             /\ Len(rdicts[i].df.rows) = 2

(***************************************************************************)
(* C2, as claimed.  The N-th request of every fetch carries the offset     *)
(* (N-1)*300.                                                              *)
(***************************************************************************)
C2_AsClaimed ==
    \A y \in FetchYears :
       LET l == RequestsFor(http, y)
       IN \A N \in 1..Len(l) : int(l[N].offset) = (N - 1) * 300

(***************************************************************************)
(* C2, amended.  The N-th request of every fetch carries the offset        *)
(* s + (N-1)*300, where s is the starting offset: 0, unless the caller     *)
(* overrides the offset parameter.  So the offset never resets or repeats  *)
(* within a fetch.                                                         *)
(***************************************************************************)
C2_OffsetAdvancement ==
    \A y \in FetchYears :
       LET l == RequestsFor(http, y)
       IN \A N \in 1..Len(l) : int(l[N].offset) = StartOffset + (N - 1) * 300

\* a second request of a fetch whose starting offset the caller has set to 100
C2_Witness ==
    /\ kwargs # {}
    /\ StartOffset = 100
    /\ \E y \in FetchYears : Len(RequestsFor(http, y)) >= 2

C4_AsClaimed ==
    epochsize <= 0 => pc \notin {"loop", "done"} /\ http = <<>> /\ df = <<>>

(***************************************************************************)
(* C5.  Epoch generation: for width > 0 and end > start the epochs are     *)
(* the values start, start+width, ... strictly less than end, each once    *)
(* and in this order, a final partial epoch included; and once the         *)
(* aggregation is built, the fetches made are one per such value, over     *)
(* the interval (value, value + width).                                    *)
(***************************************************************************)
EpochValues == {v \in start..(end - 1) : (v - start) % epochsize = 0}

C5_EpochGeneration ==
    (epochsize > 0 /\ end > start /\ pc # "call") =>
       /\ Len(epochs) = Cardinality(EpochValues)
       /\ {epochs[i] : i \in DOMAIN epochs} = EpochValues
       /\ \A i \in 1..(Len(epochs) - 1) : epochs[i] < epochs[i + 1]
       /\ FetchYears \subseteq {YearOf(v) : v \in EpochValues}
       /\ \A i \in 1..(Len(http) - 1) :
             http[i].year # http[i + 1].year =>
                \A k \in (i + 1)..Len(http) : http[k].year # http[i].year
       /\ pc = "done" =>
             /\ FetchYears = {YearOf(v) : v \in EpochValues}
             /\ Cardinality(FetchYears) = Cardinality(EpochValues)

\* Epochs(q, 0, 3, 2): the epochs 0 and 2, the second a partial one
C5_Witness ==
    /\ pc = "done"
    /\ start = 0 /\ end = 3 /\ epochsize = 2
    /\ epochs = <<0, 2>>
    /\ Cardinality(FetchYears) = 2

(***************************************************************************)
(* C6.  Epoch labels: every row of the aggregated table carries an epoch,  *)
(* and it is the start year of the interval of the request that returned   *)
(* the row.                                                                *)
(***************************************************************************)
C6_EpochLabel ==
    pc = "done" =>
       \A i \in DOMAIN df[1].rows :
          LET r == df[1].rows[i]
          IN /\ "epoch" \in DOMAIN r
             /\ "epoch" \in df[1].cols
             /\ r.epoch # Missing("epoch")
             /\ \E k \in DOMAIN epochs : epochs[k] = r.epoch
             /\ r.queried = YearOf(r.epoch)

\* a table with rows of two epochs, one of them fetched in two pages, its
\* record on the second
C6_Witness ==
    /\ pc = "done"
    /\ \E i, j \in DOMAIN df[1].rows : df[1].rows[i].epoch # df[1].rows[j].epoch
    /\ \E y \in FetchYears :
          LET l == RequestsFor(http, y)
          IN Len(l) = 2 /\ l[2].results # <<>>

(***************************************************************************)
(* C7, as claimed.  Whatever records the fetches of the epochs return,     *)
(* some or all of them possibly none, the aggregation gives a table whose  *)
(* year column is non-decreasing and whose rows are exactly the rows of    *)
(* the tables of the epochs.                                               *)
(***************************************************************************)
RECURSIVE AllResults(_)
AllResults(h) == IF h = <<>> THEN <<>> ELSE Head(h).results \o AllResults(Tail(h))

Unlabelled(r) == [c \in DOMAIN r \ {"epoch"} |-> r[c]]

Occurrences(s, x) == Cardinality({i \in DOMAIN s : s[i] = x})

SameRows(rows, fetched) ==
    /\ Len(rows) = Len(fetched)
    /\ \A i \in DOMAIN fetched :
          Occurrences([k \in DOMAIN rows |-> Unlabelled(rows[k])], fetched[i])
             = Occurrences(fetched, fetched[i])

NonDecreasing(rows) ==
    \A i \in 1..(Len(rows) - 1) : rows[i].year <= rows[i + 1].year

AllFetched ==
    /\ pc \in {"done", "raised"}
    /\ epochs # <<>>
    /\ FetchYears = {YearOf(epochs[i]) : i \in DOMAIN epochs}
    /\ \A i \in DOMAIN http : Success(http[i])

C7_AsClaimed ==
    (epochsize > 0 /\ AllFetched) =>
       /\ pc = "done"
       /\ df # <<>>
       /\ NonDecreasing(df[1].rows)
       /\ SameRows(df[1].rows, AllResults(http))

\* what holds of the code: a table that is built is sorted and complete
C7_WhenBuilt ==
    (pc = "done" /\ epochs # <<>>) =>
       /\ NonDecreasing(df[1].rows)
       /\ SameRows(df[1].rows, AllResults(http))

(***************************************************************************)
(* C8.  Empty range: with a positive width and start >= end the            *)
(* constructor raises nothing and issues no request, and the table it      *)
(* leaves has no rows and no columns.                                      *)
(***************************************************************************)
C8_EmptyRange ==
    (epochsize > 0 /\ start >= end) =>
       /\ pc \in {"call", "comprehension", "done"}
       /\ err = ""
       /\ http = <<>>
       /\ pc # "call" => epochs = <<>>
       /\ pc = "done" => df = <<[cols |-> {}, rows |-> <<>>]>>

\* Epochs("", 0, 0, 1), the call load_epochs_from_csv makes
C8_Witness ==
    /\ pc = "done"
    /\ start = 0 /\ end = 0 /\ epochsize = 1
    /\ df # <<>>
    /\ df[1].rows = <<>>
    /\ df[1].cols = {}

(***************************************************************************)
(* C9.  Diversity: for every group simpsons_diversity forms, the value     *)
(* reported is 1 minus the sum over the species s of the group of          *)
(* (count(s)/total)^2, but missing when one species only is present.       *)
(***************************************************************************)
\* the rows of the table that have the key g and a species
GroupRows(t, by, g) ==
    {i \in DOMAIN t.rows : t.rows[i][by] = g /\ t.rows[i].species # NA}

SpeciesIn(t, R) == {t.rows[i].species : i \in R}

RECURSIVE SumOfSquaredCounts(_, _, _)
SumOfSquaredCounts(t, R, S) ==
    IF S = {} THEN 0
    ELSE LET sp == CHOOSE x \in S : TRUE
             n == Cardinality({i \in R : t.rows[i].species = sp})
         IN n * n + SumOfSquaredCounts(t, R, S \ {sp})

C10_AsClaimed ==
    \A y \in FetchYears :
       LET l == RequestsFor(http, y)
       IN \A N \in 1..(Len(l) - 1) :
             int(l[N + 1].offset) = int(l[N].offset) + int(l[N].limit)

====
